---------------------------- MODULE Spec2Model ----------------------------
(***************************************************************************)
(* A model of the A2A multi-workflow server                                *)
(* (src/a2a_multi_workflow_server.py): the MultiWorkflowExecutor that      *)
(* parses an inbound message, resolves a workflow in the FastAgent         *)
(* runtime's agent map, lazily creates the runtime, and renders the        *)
(* outcome into the request's event queue.                                 *)
(*                                                                         *)
(* Text is modelled as a sequence of tokens: a string is the concatenation *)
(* of its tokens.  The tokens are the routing prefix "workflow:", the      *)
(* separator "|", a blank, and words that contain none of these.           *)
(***************************************************************************)
EXTENDS Integers, Sequences, FiniteSets, TLC

(***************************************************************************)
(* Bounds of the model.                                                    *)
(***************************************************************************)
MaxMsgLen == 5

(***************************************************************************)
(* Text: tokens and the str operations execute() uses.                     *)
(***************************************************************************)
PREFIX == "workflow:"
SEP == "|"
WS == " "

\* The words of the model's alphabet besides PREFIX, SEP and WS.
Words == {"router_workflow", "proofreader"}

Alphabet == {PREFIX, SEP, WS} \cup Words

\* str.strip(): drop leading and trailing whitespace.
RECURSIVE LStrip(_)
LStrip(s) == IF s # <<>> /\ Head(s) = WS THEN LStrip(Tail(s)) ELSE s

RECURSIVE RStrip(_)
RStrip(s) ==
    IF s # <<>> /\ s[Len(s)] = WS THEN RStrip(SubSeq(s, 1, Len(s) - 1)) ELSE s

Strip(s) == RStrip(LStrip(s))

\* "|" in message
Contains(s, tok) == \E i \in 1..Len(s) : s[i] = tok

\* message.startswith("workflow:")
StartsWith(s, tok) == s # <<>> /\ Head(s) = tok

\* Index of the first occurrence of tok in s (s contains tok).
FirstIndex(s, tok) == CHOOSE i \in 1..Len(s) :
    s[i] = tok /\ \A j \in 1..(i - 1) : s[j] # tok

\* A split at the last separator instead of the first (str.rsplit).
SplitLast(s, tok) ==
    LET i == CHOOSE k \in 1..Len(s) :
                 s[k] = tok /\ \A j \in (k + 1)..Len(s) : s[j] # tok
    IN  << SubSeq(s, 1, i - 1), SubSeq(s, i + 1, Len(s)) >>

\* message.split("|", 1): the text before and after the first separator.
SplitOnce(s, tok) ==
    LET i == FirstIndex(s, tok)
    IN  << SubSeq(s, 1, i - 1), SubSeq(s, i + 1, Len(s)) >>

\* str.replace(tok, ""): every occurrence of tok removed.
Keep(t, tok) == t # tok
RemoveAll(s, tok) == SelectSeq(s, LAMBDA t : Keep(t, tok))

(***************************************************************************)
(* The dispatcher's parse of the inbound text (execute, lines 227-239).    *)
(***************************************************************************)
DEFAULT_WORKFLOW == << "router_workflow" >>

\* workflow_name = parts[0].replace("workflow:", "").strip()
NameOfParts(parts) == Strip(RemoveAll(parts[1], PREFIX))

\* user_message = parts[1].strip()
InputOfParts(parts) == Strip(parts[2])

\* A client that puts the message before the workflow name.
SendMessageSwapped(message, workflow) ==
    << PREFIX >> \o message \o << SEP >> \o workflow

\* a2a_client_example.py, line 57: f"workflow:{workflow}|{message}".
SendMessage(message, workflow) ==
    << PREFIX >> \o workflow \o << SEP >> \o message

\* The condition of line 236.
HasRouting(message) == Contains(message, SEP) /\ StartsWith(message, PREFIX)

\* Lines 227-239: the stripped message, whether execute goes on (a non-empty
\* message), and the workflow name and effective input it computes.
ParseRequest(raw) ==
    LET message == Strip(raw)
    IN  IF message = <<>>
        THEN [dispatched |-> FALSE, workflow_name |-> <<>>, user_message |-> <<>>]
        ELSE IF HasRouting(message)
        THEN [dispatched |-> TRUE,
              workflow_name |-> NameOfParts(SplitOnce(message, SEP)),
              user_message |-> InputOfParts(SplitOnce(message, SEP))]
        ELSE [dispatched |-> TRUE,
              workflow_name |-> DEFAULT_WORKFLOW,
              user_message |-> message]


(***************************************************************************)
(* Workflow resolution in the runtime's agent map (_workflow, lines        *)
(* 210-219).  The map is an ordered dict: the sequence of its keys in      *)
(* insertion order; the value of a key is the agent of that name.          *)
(***************************************************************************)
Keys(agents_map) == { agents_map[i] : i \in 1..Len(agents_map) }

\* What leaves _workflow when next(iter({}.values())) raises StopIteration:
\* a coroutine turns it into RuntimeError("coroutine raised StopIteration").
\* It is the text of that error; no name is this text.
STOP_ITERATION == << "coroutine raised StopIteration" >>

\* A fallback that skips the default workflow and takes the first entry.
ResolveFirst(agents_map, workflow_name) ==
    IF workflow_name \in Keys(agents_map) THEN workflow_name
    ELSE IF agents_map = <<>> THEN STOP_ITERATION
    ELSE agents_map[1]

\* Lines 215-219.  dict.get's default, next(iter(agents_map.values())), is
\* evaluated before get is called, so an empty map raises.
Resolve(agents_map, workflow_name) ==
    IF workflow_name \in Keys(agents_map) THEN workflow_name
    ELSE IF agents_map = <<>> THEN STOP_ITERATION
    ELSE IF DEFAULT_WORKFLOW \in Keys(agents_map) THEN DEFAULT_WORKFLOW
    ELSE agents_map[1]

\* agent_card, line 255: agent_name or "router_workflow" (None and "" are
\* both falsy; None is modelled as the empty text).
CardName(agent_name) == IF agent_name = <<>> THEN DEFAULT_WORKFLOW ELSE agent_name

\* The agents the decorators of lines 44-191 declare, in source order.
REGISTERED == <<
    << "url_summarizer" >>, << "content_writer" >>, << "chaining_workflow" >>,
    << "proofreader" >>, << "fact_checker" >>, << "style_enforcer" >>,
    << "quality_grader" >>, << "parallel_workflow" >>,
    << "code_analyst" >>, << "web_researcher" >>, << "general_assistant" >>,
    << "router_workflow" >>,
    << "task_planner" >>, << "executor" >>, << "reviewer" >>,
    << "orchestrator_workflow" >>,
    << "content_generator" >>, << "quality_evaluator" >>,
    << "evaluator_optimizer_workflow" >>,
    << "simple_assistant" >> >>

(***************************************************************************)
(* Responses (lines 244-247).                                              *)
(***************************************************************************)
\* new_agent_text_message(text): an agent-role message with one text part.
TextMessage(text) == [kind |-> "message", role |-> "agent", text |-> text]

\* f"Error in {workflow_name}: {str(e)}"
ErrorText(workflow_name, cause) ==
    << "Error in " >> \o workflow_name \o << ": " >> \o cause

\* The exception cancel raises (line 251).
CANCEL_UNSUPPORTED ==
    << "cancel not fully supported in multi-workflow executor" >>

(***************************************************************************)
(* The executor under concurrent callers.  Each task is one call of        *)
(* execute, agent_card or cancel; asyncio runs the code between two        *)
(* suspending awaits atomically, so an action is one such stretch.  The    *)
(* suspending awaits are fast.run().__aenter__ (line 207), agent.send and  *)
(* agent.agent_card (lines 243, 256), event_queue.enqueue_event (lines     *)
(* 244, 247) and the runtime's __aexit__ inside AsyncExitStack.aclose      *)
(* (line 260).  Each of them returns or ends with an exception.            *)
(***************************************************************************)
VARIABLES
    agents,      \* self._agents: 0 (None) or the cached runtime
    stack,       \* self._stack: the runtimes whose exit is registered
    rt_state,    \* each runtime context: unused, entering, open, closing,
                 \* closed, exit_failed, failed.  The runtime a task's fast.run() makes
                 \* bears the task's number.
    rt_exits,    \* how many times each runtime's __aexit__ was called
    task,        \* each call: its position and locals
    events,      \* each call's event_queue
    shutdown,    \* the shutdown caller: position, runtime being exited,
                 \* exception pending in aclose, calls ended
    d_in, d_out, \* the dispatch function applied to drawn inputs
    d_pc,
    flow         \* one run of a workflow pattern over its agents

vars == << agents, stack, rt_state, rt_exits, task, events, shutdown,
           d_in, d_out, d_pc, flow >>

exec_vars == << agents, stack, rt_state, rt_exits, task, events, shutdown >>
disp_vars == << d_in, d_out, d_pc >>
flow_vars == << flow >>

NumTasks == 2
MaxShutdowns == 1

Tasks == 1..NumTasks
NONE == 0

\* The raw texts of the execute calls.
Requests == {
    << PREFIX, "unknown_wf", SEP, "x" >>,
    << WS >> }

\* The agent_name arguments of the agent_card calls (<<>>: None).
CardNames == { <<>> }

\* What an exception raised by the runtime or by an agent says.
Causes == { << "boom" >> }

\* An exception: its class, as far as `except Exception` tells classes
\* apart, and str(e).
Exc(type, text) == [type |-> type, text |-> text]
NO_EXC == Exc("none", <<>>)

\* What a cancelled task gets at the await it is suspended in; a
\* BaseException that is not an Exception.
CANCELLED == Exc("CancelledError", <<>>)

\* The exceptions an awaited call ends with.
Failures == { Exc("Exception", c) : c \in Causes }
Exceptions == Failures \cup { CANCELLED }

\* isinstance(e, Exception)
IsException(e) == e.type \notin {"none", "CancelledError"}

\* The text a workflow answers with.  An agent's output is any text: the
\* one drawn reads like the error text of a failed request.
Outputs == { ErrorText(<< "unknown_wf" >>, << "boom" >>) }

IdleTask == [pc |-> "idle", kind |-> "none", message |-> <<>>,
             workflow_name |-> <<>>, user_message |-> <<>>, app |-> NONE,
             agent |-> <<>>, response |-> <<>>, failure |-> NO_EXC]

ExecInit ==
    /\ agents = NONE
    /\ stack = <<>>
    /\ rt_state = [r \in Tasks |-> "unused"]
    /\ rt_exits = [r \in Tasks |-> 0]
    /\ task = [t \in Tasks |-> IdleTask]
    /\ events = [t \in Tasks |-> <<>>]
    /\ shutdown = [pc |-> "idle", rt |-> NONE, pending |-> NO_EXC,
                   calls |-> 0]

\* A call that has ended: how it ended and with which exception, caught or
\* raised; its other locals are gone.
Ended(rec, pc, e) ==
    [IdleTask EXCEPT !.pc = pc, !.kind = rec.kind, !.message = rec.message,
                     !.failure = e]

\* A call without any handler.
CaughtNowhere(kind, e) == FALSE

\* Whether the caller's handler catches exception e of the call: execute
\* wraps lines 242-244 in try/except Exception (lines 241-247); agent_card
\* has no handler.
Caught(kind, e) == kind = "execute" /\ IsException(e)

\* Exception e is raised inside the call's try block: the handler of line
\* 245 takes it and goes on to enqueue the error text (line 247), or it
\* leaves the call.
Raise(t, rec, e) ==
    task' = [task EXCEPT ![t] =
                IF Caught(rec.kind, e)
                THEN [rec EXCEPT !.pc = "handling", !.failure = e]
                ELSE Ended(rec, "raised", e)]

\* _workflow after _agents_app returned app (lines 213-219), then the call
\* of the agent's send or agent_card, which suspends.
Lookup(t, rec, app) ==
    LET found == Resolve(REGISTERED, rec.workflow_name)
    IN  IF found = STOP_ITERATION
        THEN Raise(t, [rec EXCEPT !.app = app],
                   Exc("RuntimeError", STOP_ITERATION))
        ELSE task' = [task EXCEPT ![t] =
                 [rec EXCEPT !.pc = "sending", !.app = app, !.agent = found]]

\* _agents_app up to its first suspension (lines 206-208): with no runtime
\* cached, fast.run() is entered and the call waits for it.
Acquire(t, rec) ==
    IF agents = NONE
    THEN /\ rt_state' = [rt_state EXCEPT ![t] = "entering"]
         /\ task' = [task EXCEPT ![t] = [rec EXCEPT !.pc = "entering", !.app = t]]
         /\ UNCHANGED << agents, stack, rt_exits, events >>
    ELSE /\ Lookup(t, rec, agents)
         /\ UNCHANGED << agents, stack, rt_state, rt_exits, events >>

\* execute (lines 221-243) up to its first suspension.
Execute(t, raw) ==
    /\ task[t].pc = "idle"
    /\ LET p == ParseRequest(raw)
       IN  IF ~p.dispatched
           THEN /\ task' = [task EXCEPT ![t] =
                       [IdleTask EXCEPT !.pc = "returned", !.kind = "execute"]]
                /\ UNCHANGED << agents, stack, rt_state, rt_exits, events >>
           ELSE Acquire(t, [IdleTask EXCEPT !.kind = "execute",
                                !.message = Strip(raw),
                                !.workflow_name = p.workflow_name,
                                !.user_message = p.user_message])
    /\ UNCHANGED << shutdown, disp_vars, flow_vars >>

\* agent_card (lines 253-256) up to its first suspension.
AgentCard(t, agent_name) ==
    /\ task[t].pc = "idle"
    /\ Acquire(t, [IdleTask EXCEPT !.kind = "agent_card",
                       !.workflow_name = CardName(agent_name)])
    /\ UNCHANGED << shutdown, disp_vars, flow_vars >>

\* fast.run().__aenter__ returns: enter_async_context registers the exit,
\* line 207 stores the runtime, and the call goes on to the lookup.
EnterOk(t) ==
    /\ task[t].pc = "entering"
    /\ rt_state' = [rt_state EXCEPT ![t] = "open"]
    /\ stack' = Append(stack, t)
    /\ agents' = t
    /\ Lookup(t, task[t], t)
    /\ UNCHANGED << rt_exits, events, shutdown, disp_vars, flow_vars >>

\* A failed entry that leaves the half-created runtime cached.
EnterFailCaching(t, e) ==
    /\ task[t].pc = "entering"
    /\ rt_state' = [rt_state EXCEPT ![t] = "failed"]
    /\ agents' = t
    /\ Raise(t, task[t], e)
    /\ UNCHANGED << stack, rt_exits, events, shutdown, disp_vars, flow_vars >>

\* The await of line 207 ends with an exception (fast.run().__aenter__
\* raises, or the task is cancelled there): nothing is registered or stored.
EnterFail(t, e) ==
    /\ task[t].pc = "entering"
    /\ rt_state' = [rt_state EXCEPT ![t] = "failed"]
    /\ Raise(t, task[t], e)
    /\ UNCHANGED << agents, stack, rt_exits, events, shutdown, disp_vars,
                    flow_vars >>

\* agent.send returns the response and execute goes on to enqueue it (line
\* 244), which suspends; agent.agent_card returns the card and agent_card
\* returns it.
SendOk(t, out) ==
    /\ task[t].pc = "sending"
    /\ task' = [task EXCEPT ![t] =
                  IF task[t].kind = "execute"
                  THEN [@ EXCEPT !.pc = "enqueuing", !.response = out]
                  ELSE Ended(@, "returned", NO_EXC)]
    /\ UNCHANGED << agents, stack, rt_state, rt_exits, events, shutdown,
                    disp_vars, flow_vars >>

\* The await of agent.send or agent.agent_card ends with an exception.
SendFail(t, e) ==
    /\ task[t].pc = "sending"
    /\ Raise(t, task[t], e)
    /\ UNCHANGED << agents, stack, rt_state, rt_exits, events, shutdown,
                    disp_vars, flow_vars >>

\* An enqueue of the response that returns without the event.
EnqueuedNothing(t) ==
    /\ task[t].pc = "enqueuing"
    /\ task' = [task EXCEPT ![t] = Ended(@, "returned", NO_EXC)]
    /\ UNCHANGED << agents, stack, rt_state, rt_exits, events, shutdown,
                    disp_vars, flow_vars >>

\* event_queue.enqueue_event of line 244 returns: the response is in the
\* queue and execute returns.
Enqueued(t) ==
    /\ task[t].pc = "enqueuing"
    /\ task' = [task EXCEPT ![t] = Ended(@, "returned", NO_EXC)]
    /\ events' = [events EXCEPT ![t] = Append(@, TextMessage(task[t].response))]
    /\ UNCHANGED << agents, stack, rt_state, rt_exits, shutdown, disp_vars,
                    flow_vars >>

\* The await of line 244 ends with an exception, inside the try block;
\* nothing was enqueued.  An Exception goes to the handler; a cancellation
\* delivered at this await leaves execute as CancelledError.
EnqueueFail(t, e) ==
    /\ task[t].pc = "enqueuing"
    /\ Raise(t, task[t], e)
    /\ UNCHANGED << agents, stack, rt_state, rt_exits, events, shutdown,
                    disp_vars, flow_vars >>

\* event_queue.enqueue_event of line 247 returns: the error text, made
\* from the requested workflow name and str(e) (line 246), is in the queue
\* and execute returns.
ErrorEnqueued(t) ==
    /\ task[t].pc = "handling"
    /\ task' = [task EXCEPT ![t] = Ended(@, "returned", @.failure)]
    /\ events' = [events EXCEPT ![t] = Append(@, TextMessage(
                     ErrorText(task[t].workflow_name, task[t].failure.text)))]
    /\ UNCHANGED << agents, stack, rt_state, rt_exits, shutdown, disp_vars,
                    flow_vars >>

\* The await of line 247 ends with an exception, inside the handler: it
\* leaves execute, whether an Exception or a cancellation delivered at this
\* await, and nothing was enqueued.
ErrorEnqueueFail(t, e) ==
    /\ task[t].pc = "handling"
    /\ task' = [task EXCEPT ![t] = Ended(@, "raised", e)]
    /\ UNCHANGED << agents, stack, rt_state, rt_exits, events, shutdown,
                    disp_vars, flow_vars >>

\* A cancel that returns quietly instead of raising.
CancelQuietly(t) ==
    /\ task[t].pc = "idle"
    /\ task' = [task EXCEPT ![t] = [IdleTask EXCEPT !.pc = "returned",
                    !.kind = "cancel"]]
    /\ UNCHANGED << agents, stack, rt_state, rt_exits, events, shutdown,
                    disp_vars, flow_vars >>

\* cancel (lines 249-251).
Cancel(t) ==
    /\ task[t].pc = "idle"
    /\ task' = [task EXCEPT ![t] = [IdleTask EXCEPT !.pc = "raised",
                    !.kind = "cancel",
                    !.failure = Exc("Exception", CANCEL_UNSUPPORTED)]]
    /\ UNCHANGED << agents, stack, rt_state, rt_exits, events, shutdown,
                    disp_vars, flow_vars >>

\* AsyncExitStack.aclose with exception e pending from the exits so far:
\* while callbacks are left, pop the last and await its __aexit__; with
\* none left aclose returns, and shutdown clears the handle (line 261), or
\* aclose raises the pending exception, and line 261 is not reached.
CloseNext(e) ==
    IF stack = <<>>
    THEN /\ agents' = IF e = NO_EXC THEN NONE ELSE agents
         /\ shutdown' = [shutdown EXCEPT !.pc = "idle", !.rt = NONE,
                            !.pending = NO_EXC, !.calls = @ + 1]
         /\ UNCHANGED << stack, rt_exits >>
    ELSE LET r == stack[Len(stack)]
         IN  /\ stack' = SubSeq(stack, 1, Len(stack) - 1)
             /\ rt_exits' = [rt_exits EXCEPT ![r] = @ + 1]
             /\ shutdown' = [shutdown EXCEPT !.pc = "closing", !.rt = r,
                                !.pending = e]
             /\ UNCHANGED agents

\* The runtimes' states when the awaited exit of the closing one has ended
\* as `ended` and aclose goes on to the next.
ExitStates(ended) ==
    LET done == [rt_state EXCEPT ![shutdown.rt] = ended]
    IN  IF stack = <<>> THEN done
        ELSE [done EXCEPT ![stack[Len(stack)]] = "closing"]

\* shutdown is called (lines 258-261).
Shutdown ==
    /\ shutdown.pc = "idle"
    /\ shutdown.calls < MaxShutdowns
    /\ CloseNext(NO_EXC)
    /\ rt_state' = IF stack = <<>> THEN rt_state
                   ELSE [rt_state EXCEPT ![stack[Len(stack)]] = "closing"]
    /\ UNCHANGED << task, events, disp_vars, flow_vars >>

\* The awaited __aexit__ of a runtime returns and aclose goes on.
Exited ==
    /\ shutdown.pc = "closing"
    /\ CloseNext(shutdown.pending)
    /\ rt_state' = ExitStates("closed")
    /\ UNCHANGED << task, events, disp_vars, flow_vars >>

\* The awaited __aexit__ of a runtime raises, or shutdown is cancelled
\* while it waits there: aclose keeps the exception, goes on with the
\* callbacks that are left and raises it at the end.
ExitFail(e) ==
    /\ shutdown.pc = "closing"
    /\ CloseNext(e)
    /\ rt_state' = ExitStates("exit_failed")
    /\ UNCHANGED << task, events, disp_vars, flow_vars >>

(***************************************************************************)
(* The dispatch function on its own: parse, then resolution in a drawn     *)
(* agent map.                                                              *)
(***************************************************************************)
RECURSIVE TextsUpTo(_)
TextsUpTo(n) ==
    IF n = 0 THEN { <<>> }
    ELSE LET shorter == TextsUpTo(n - 1)
         IN  shorter \cup { Append(s, a) : s \in shorter, a \in Alphabet }

Messages == TextsUpTo(MaxMsgLen)

\* Agent maps with and without the default workflow.
Registries == {
    REGISTERED,
    << << "proofreader" >>, DEFAULT_WORKFLOW >>,
    << << "proofreader" >>, << "chaining_workflow" >> >>,
    << << "chaining_workflow" >>, << "proofreader" >> >> }

\* Lines 227-243 with the runtime at hand: the workflow name and input
\* execute computes and the agent _workflow returns.
Dispatch(raw, agents_map) ==
    LET p == ParseRequest(raw)
    IN  [dispatched |-> p.dispatched,
         workflow_name |-> p.workflow_name,
         user_message |-> p.user_message,
         agent |-> IF p.dispatched
                   THEN Resolve(agents_map, p.workflow_name) ELSE <<>>]

NoDispatch == [dispatched |-> FALSE, workflow_name |-> <<>>,
               user_message |-> <<>>, agent |-> <<>>]

DispInit ==
    /\ d_in \in [raw : Messages, agents_map : Registries]
    /\ d_out = NoDispatch
    /\ d_pc = "start"

DispatchStep ==
    /\ d_pc = "start"
    /\ d_out' = Dispatch(d_in.raw, d_in.agents_map)
    /\ d_pc' = "done"
    /\ UNCHANGED << d_in, exec_vars, flow_vars >>

\* No message is being dispatched on its own: nothing is drawn and nothing
\* is computed.
DispIdle ==
    /\ d_in = [raw |-> <<>>, agents_map |-> <<>>]
    /\ d_out = NoDispatch
    /\ d_pc = "off"

(***************************************************************************)
(* The workflow patterns the decorators configure.  The decorators give    *)
(* the agents of each pattern; how a pattern runs them follows the         *)
(* design's sections 4.1 to 4.3.  An agent is a function from text to      *)
(* text that may fail: its output on x is the term Out(agent, x).          *)
(***************************************************************************)
\* The chain's stages declared in the opposite order.
CHAIN_SEQUENCE_Swapped == << "content_writer", "url_summarizer" >>

\* @fast.chain(sequence=[...]), line 55.
CHAIN_SEQUENCE == << "url_summarizer", "content_writer" >>

\* The fan-out agents declared in another order.
FAN_OUT_Reordered == << "fact_checker", "proofreader", "style_enforcer" >>

\* @fast.parallel(fan_out=[...], fan_in=...), lines 83-84.
FAN_OUT == << "proofreader", "fact_checker", "style_enforcer" >>
FAN_IN == "quality_grader"

\* The router's candidates declared with another one first.
ROUTER_AGENTS_Reordered ==
    << "web_researcher", "code_analyst", "general_assistant" >>

\* @fast.router(agents=[...]), line 115.
ROUTER_AGENTS == << "code_analyst", "web_researcher", "general_assistant" >>

Range(seq) == { seq[i] : i \in 1..Len(seq) }

Out(agent, x) == [by |-> agent, of |-> x]

Success(text) == [ok |-> TRUE, text |-> text]
Failure(agent, stage, cause) ==
    [ok |-> FALSE, agent |-> agent, stage |-> stage, cause |-> cause]
NoResult == [ok |-> FALSE, agent |-> "", stage |-> 0, cause |-> <<>>]

\* The inputs of the runs.
FlowInputs == { << "x" >>, << "y" >>, << "x", WS, "y" >> }

Patterns == { "chain", "parallel", "router" }

\* The planner's agents in another order.
PLANNER_AGENTS_Reordered == << "executor", "task_planner", "reviewer" >>

\* @fast.iterative_planner(agents=[...], plan_iterations=3), lines 141-143.
PLANNER_AGENTS == << "task_planner", "executor", "reviewer" >>
PLAN_ITERATIONS == 3

\* @fast.evaluator_optimizer(generator=..., evaluator=..., min_rating=...,
\* max_refinements=3), lines 172-175.
GENERATOR == "content_generator"
EVALUATOR == "quality_evaluator"
MIN_RATING == "EXCELLENT"
MAX_REFINEMENTS == 3

\* The ordinal scale POOR < FAIR < GOOD < EXCELLENT.
Ratings == { "POOR", "FAIR", "GOOD", "EXCELLENT" }
Rank(r) == CASE r = "POOR" -> 1 [] r = "FAIR" -> 2 [] r = "GOOD" -> 3
             [] r = "EXCELLENT" -> 4

\* What the reviewer answers: a completion signal or feedback.
Verdicts == { "complete", "feedback" }

\* A budget check that lets one more round through.
ExhaustedLate(count, limit) == count > limit

\* Whether a loop has used its budget up.
Exhausted(count, limit) == count >= limit

\* The budgets of the loop runs: the declared ones and smaller ones.
IterationBudgets == { 1, PLAN_ITERATIONS }
RefinementBudgets == { 0, 2, MAX_REFINEMENTS }

\* What the router's classifier may answer: a candidate or another id.
Classifications == Range(ROUTER_AGENTS) \cup { "unknown_agent" }

NoOutput == <<>>

FlowStart(pattern, x) ==
    [pattern |-> pattern,
     input |-> x,
     pc |-> "ready",
     x |-> x,             \* the value passed to the next stage
     stage |-> 1,
     running |-> {},      \* the agents whose invocation is in flight
     outs |-> [a \in Range(FAN_OUT) |-> NoOutput],
     finished |-> <<>>,   \* the fan-out agents in completion order
     calls |-> <<>>,      \* every invocation made: agent and input
     picked |-> "",       \* the classifier's answer
     limit |-> 0,         \* the loop's iteration or refinement budget
     verdicts |-> <<>>,   \* the reviews or ratings given so far
     result |-> NoResult]

FlowInit ==
    flow \in { FlowStart(p, x) : p \in Patterns, x \in FlowInputs }
        \cup { [FlowStart("planner", x) EXCEPT !.limit = n] :
                   x \in FlowInputs, n \in IterationBudgets }
        \cup { [FlowStart("evaluator", x) EXCEPT !.limit = n, !.stage = 0] :
                   x \in FlowInputs, n \in RefinementBudgets }

FlowIdle == flow = [FlowStart("none", <<>>) EXCEPT !.pc = "off"]

Call(agent, x) == [agent |-> agent, input |-> x]

\* 4.1 Chain: stage i is invoked with the output of stage i - 1.
ChainInvoke ==
    /\ flow.pattern = "chain" /\ flow.pc = "ready"
    /\ flow' = [flow EXCEPT !.pc = "stage",
                    !.running = { CHAIN_SEQUENCE[flow.stage] },
                    !.calls = Append(@, Call(CHAIN_SEQUENCE[flow.stage], flow.x))]
    /\ UNCHANGED << exec_vars, disp_vars >>

\* The running stage returns: its output is the next stage's input, or the
\* chain's result after the last stage.
ChainReturn ==
    /\ flow.pattern = "chain" /\ flow.pc = "stage"
    /\ LET y == Out(CHAIN_SEQUENCE[flow.stage], flow.x)
           last == flow.stage = Len(CHAIN_SEQUENCE)
       IN  flow' = [flow EXCEPT !.running = {},
                        !.x = y,
                        !.stage = @ + 1,
                        !.pc = IF last THEN "done" ELSE "ready",
                        !.result = IF last THEN Success(y) ELSE @]
    /\ UNCHANGED << exec_vars, disp_vars >>

\* The running stage fails: the chain aborts with that failure.
ChainFail(cause) ==
    /\ flow.pattern = "chain" /\ flow.pc = "stage"
    /\ flow' = [flow EXCEPT !.running = {},
                    !.pc = "done",
                    !.result = Failure(CHAIN_SEQUENCE[flow.stage],
                                       flow.stage, cause)]
    /\ UNCHANGED << exec_vars, disp_vars >>

\* 4.2 Parallel: every fan-out agent is invoked with the input at once.
FanOut ==
    /\ flow.pattern = "parallel" /\ flow.pc = "ready"
    /\ flow' = [flow EXCEPT !.pc = "fanout",
                    !.running = Range(FAN_OUT),
                    !.calls = [i \in 1..Len(FAN_OUT) |->
                                  Call(FAN_OUT[i], flow.input)]]
    /\ UNCHANGED << exec_vars, disp_vars >>

\* One of the in-flight fan-out invocations returns.
FanOutReturn(a) ==
    /\ flow.pattern = "parallel" /\ flow.pc = "fanout"
    /\ a \in flow.running
    /\ flow' = [flow EXCEPT !.running = @ \ {a},
                    !.outs[a] = Out(a, flow.input),
                    !.finished = Append(@, a)]
    /\ UNCHANGED << exec_vars, disp_vars >>

\* One of them fails: the others are cancelled and the failure is the
\* result; the fan-in agent is not invoked.
FanOutFail(a, cause) ==
    /\ flow.pattern = "parallel" /\ flow.pc = "fanout"
    /\ a \in flow.running
    /\ flow' = [flow EXCEPT !.running = {},
                    !.pc = "done",
                    !.result = Failure(a, 1, cause)]
    /\ UNCHANGED << exec_vars, disp_vars >>

\* The aggregated input of the fan-in agent: each output labelled by its
\* agent, in fan-out list order.
Aggregate(outs) ==
    [i \in 1..Len(FAN_OUT) |-> [agent |-> FAN_OUT[i], output |-> outs[FAN_OUT[i]]]]

\* The join: all fan-out invocations have returned, the fan-in agent is
\* invoked with the aggregated input.
FanIn ==
    /\ flow.pattern = "parallel" /\ flow.pc = "fanout"
    /\ flow.running = {}
    /\ flow' = [flow EXCEPT !.pc = "fanin",
                    !.running = { FAN_IN },
                    !.x = Aggregate(flow.outs),
                    !.stage = 2,
                    !.calls = Append(@, Call(FAN_IN, Aggregate(flow.outs)))]
    /\ UNCHANGED << exec_vars, disp_vars >>

FanInReturn ==
    /\ flow.pattern = "parallel" /\ flow.pc = "fanin"
    /\ flow' = [flow EXCEPT !.running = {},
                    !.pc = "done",
                    !.result = Success(Out(FAN_IN, flow.x))]
    /\ UNCHANGED << exec_vars, disp_vars >>

FanInFail(cause) ==
    /\ flow.pattern = "parallel" /\ flow.pc = "fanin"
    /\ flow' = [flow EXCEPT !.running = {},
                    !.pc = "done",
                    !.result = Failure(FAN_IN, 2, cause)]
    /\ UNCHANGED << exec_vars, disp_vars >>

\* 4.3 Router: the candidate the classifier names, or the first declared
\* candidate when it names none of them.
Selected(picked) ==
    IF picked \in Range(ROUTER_AGENTS) THEN picked ELSE ROUTER_AGENTS[1]

\* The classifier answers and the selected candidate is invoked with the
\* original input.
Classify(picked) ==
    /\ flow.pattern = "router" /\ flow.pc = "ready"
    /\ flow' = [flow EXCEPT !.pc = "routed",
                    !.picked = picked,
                    !.running = { Selected(picked) },
                    !.calls = Append(@, Call(Selected(picked), flow.input))]
    /\ UNCHANGED << exec_vars, disp_vars >>

\* The selected candidate returns: its output is the result, unchanged.
RouteReturn ==
    /\ flow.pattern = "router" /\ flow.pc = "routed"
    /\ flow' = [flow EXCEPT !.running = {},
                    !.pc = "done",
                    !.result = Success(Out(Selected(flow.picked), flow.input))]
    /\ UNCHANGED << exec_vars, disp_vars >>

RouteFail(cause) ==
    /\ flow.pattern = "router" /\ flow.pc = "routed"
    /\ flow' = [flow EXCEPT !.running = {},
                    !.pc = "done",
                    !.result = Failure(Selected(flow.picked), 1, cause)]
    /\ UNCHANGED << exec_vars, disp_vars >>

\* What a loop returns when it ends without a failure: the latest artifact
\* and the latest verdict, whether or not the verdict approved it.
LoopResultStrict(artifact, verdict, approved) ==
    IF approved THEN Success([artifact |-> artifact, verdict |-> verdict])
    ELSE Failure("", 0, << "budget exhausted" >>)

LoopResult(artifact, verdict, approved) ==
    Success([artifact |-> artifact, verdict |-> verdict])

\* The input of a loop's first stage: the original input, with the latest
\* feedback folded in after the first round.
Folded(x, verdicts, artifact) ==
    IF verdicts = <<>> THEN x
    ELSE [task |-> x, feedback |-> verdicts[Len(verdicts)], on |-> artifact]

\* 4.4 Iterative planner: Plan, Execute, Review, at most limit times.
PlanInvoke ==
    /\ flow.pattern = "planner" /\ flow.pc = "ready"
    /\ flow' = [flow EXCEPT !.pc = "planning",
                    !.running = { PLANNER_AGENTS[1] },
                    !.calls = Append(@, Call(PLANNER_AGENTS[1],
                                Folded(flow.input, flow.verdicts, flow.x)))]
    /\ UNCHANGED << exec_vars, disp_vars >>

\* The planner returns the step and the executor is invoked with it.
PlanReturn ==
    /\ flow.pattern = "planner" /\ flow.pc = "planning"
    /\ LET step == Out(PLANNER_AGENTS[1], flow.calls[Len(flow.calls)].input)
       IN  flow' = [flow EXCEPT !.pc = "executing",
                        !.running = { PLANNER_AGENTS[2] },
                        !.calls = Append(@, Call(PLANNER_AGENTS[2], step))]
    /\ UNCHANGED << exec_vars, disp_vars >>

\* The executor returns the artifact and the reviewer is invoked with it.
ExecuteReturn ==
    /\ flow.pattern = "planner" /\ flow.pc = "executing"
    /\ LET artifact == Out(PLANNER_AGENTS[2], flow.calls[Len(flow.calls)].input)
       IN  flow' = [flow EXCEPT !.pc = "reviewing",
                        !.running = { PLANNER_AGENTS[3] },
                        !.x = artifact,
                        !.calls = Append(@, Call(PLANNER_AGENTS[3], artifact))]
    /\ UNCHANGED << exec_vars, disp_vars >>

\* The reviewer answers: the loop ends on completion or on the last
\* iteration, and goes back to Plan otherwise.
ReviewReturn(verdict) ==
    /\ flow.pattern = "planner" /\ flow.pc = "reviewing"
    /\ LET over == verdict = "complete" \/ Exhausted(flow.stage, flow.limit)
       IN  flow' = [flow EXCEPT !.running = {},
                        !.verdicts = Append(@, verdict),
                        !.pc = IF over THEN "done" ELSE "ready",
                        !.stage = IF over THEN @ ELSE @ + 1,
                        !.result = IF over
                                   THEN LoopResult(flow.x, verdict,
                                                   verdict = "complete")
                                   ELSE @]
    /\ UNCHANGED << exec_vars, disp_vars >>

\* The agent of the running stage fails: the loop aborts with the failure.
PlannerFail(cause) ==
    /\ flow.pattern = "planner"
    /\ flow.pc \in {"planning", "executing", "reviewing"}
    /\ flow' = [flow EXCEPT !.running = {},
                    !.pc = "done",
                    !.result = Failure(flow.calls[Len(flow.calls)].agent,
                                       flow.stage, cause)]
    /\ UNCHANGED << exec_vars, disp_vars >>

\* 4.5 Evaluator-optimizer: generate, evaluate, refine at most limit times.
Generate ==
    /\ flow.pattern = "evaluator" /\ flow.pc = "ready"
    /\ flow' = [flow EXCEPT !.pc = "generating",
                    !.running = { GENERATOR },
                    !.calls = Append(@, Call(GENERATOR,
                                Folded(flow.input, flow.verdicts, flow.x)))]
    /\ UNCHANGED << exec_vars, disp_vars >>

\* The generator returns the candidate and the evaluator is invoked.
GenerateReturn ==
    /\ flow.pattern = "evaluator" /\ flow.pc = "generating"
    /\ LET candidate == Out(GENERATOR, flow.calls[Len(flow.calls)].input)
       IN  flow' = [flow EXCEPT !.pc = "evaluating",
                        !.running = { EVALUATOR },
                        !.x = candidate,
                        !.calls = Append(@, Call(EVALUATOR, candidate))]
    /\ UNCHANGED << exec_vars, disp_vars >>

\* The evaluator rates the candidate: the loop ends when the rating
\* reaches the minimum or the refinements are used up, and refines
\* otherwise.
EvaluateReturn(rating) ==
    /\ flow.pattern = "evaluator" /\ flow.pc = "evaluating"
    /\ LET good == Rank(rating) >= Rank(MIN_RATING)
           over == good \/ Exhausted(flow.stage, flow.limit)
       IN  flow' = [flow EXCEPT !.running = {},
                        !.verdicts = Append(@, rating),
                        !.pc = IF over THEN "done" ELSE "ready",
                        !.stage = IF over THEN @ ELSE @ + 1,
                        !.result = IF over
                                   THEN LoopResult(flow.x, rating, good)
                                   ELSE @]
    /\ UNCHANGED << exec_vars, disp_vars >>

\* The generator or the evaluator fails: the loop aborts with the failure.
EvaluatorFail(cause) ==
    /\ flow.pattern = "evaluator"
    /\ flow.pc \in {"generating", "evaluating"}
    /\ flow' = [flow EXCEPT !.running = {},
                    !.pc = "done",
                    !.result = Failure(flow.calls[Len(flow.calls)].agent,
                                       flow.stage, cause)]
    /\ UNCHANGED << exec_vars, disp_vars >>

(***************************************************************************)
(* Specifications.                                                         *)
(***************************************************************************)
Init == ExecInit /\ DispIdle /\ FlowIdle

Next ==
    \/ \E t \in Tasks, raw \in Requests : Execute(t, raw)
    \/ \E t \in Tasks, n \in CardNames : AgentCard(t, n)
    \/ \E t \in Tasks : EnterOk(t)
    \/ \E t \in Tasks, e \in Exceptions : EnterFail(t, e)
    \/ \E t \in Tasks, o \in Outputs : SendOk(t, o)
    \/ \E t \in Tasks, e \in Exceptions : SendFail(t, e)
    \/ \E t \in Tasks : Enqueued(t)
    \/ \E t \in Tasks, e \in Exceptions : EnqueueFail(t, e)
    \/ \E t \in Tasks : ErrorEnqueued(t)
    \/ \E t \in Tasks, e \in Exceptions : ErrorEnqueueFail(t, e)
    \/ \E t \in Tasks : Cancel(t)
    \/ Shutdown
    \/ Exited
    \/ \E e \in Exceptions : ExitFail(e)

Spec == Init /\ [][Next]_vars

SpecDispatchInit == ExecInit /\ DispInit /\ FlowIdle

SpecDispatchNext == DispatchStep

SpecDispatch == SpecDispatchInit /\ [][SpecDispatchNext]_vars

SpecWorkflowsInit == ExecInit /\ DispIdle /\ FlowInit

SpecWorkflowsNext ==
    \/ ChainInvoke
    \/ ChainReturn
    \/ \E c \in Causes : ChainFail(c)
    \/ FanOut
    \/ \E a \in flow.running : FanOutReturn(a)
    \/ \E a \in flow.running, c \in Causes : FanOutFail(a, c)
    \/ FanIn
    \/ FanInReturn
    \/ \E c \in Causes : FanInFail(c)
    \/ \E c \in Classifications : Classify(c)
    \/ RouteReturn
    \/ \E c \in Causes : RouteFail(c)
    \/ PlanInvoke
    \/ PlanReturn
    \/ ExecuteReturn
    \/ \E v \in Verdicts : ReviewReturn(v)
    \/ \E c \in Causes : PlannerFail(c)
    \/ Generate
    \/ GenerateReturn
    \/ \E r \in Ratings : EvaluateReturn(r)
    \/ \E c \in Causes : EvaluatorFail(c)

SpecWorkflows == SpecWorkflowsInit /\ [][SpecWorkflowsNext]_vars

\* Every invocation of an agent ends, with an output or with a failure, so
\* a pattern that can take a step eventually takes one.
FairWorkflows == SpecWorkflows /\ WF_vars(SpecWorkflowsNext)

(***************************************************************************)
(* Properties of the executor under concurrent callers.                    *)
(***************************************************************************)
InFlight(t) == task[t].pc \in {"entering", "sending", "enqueuing", "handling"}

Created == { r \in Tasks : rt_state[r] # "unused" }

\* C1: while no shutdown has been called and no creation has failed, the
\* concurrent first requests enter fast.run() at most once and every call
\* that holds a runtime holds the same one.
C1_RuntimeCreatedOnce ==
    (shutdown.pc = "idle" /\ shutdown.calls = 0
        /\ \A r \in Tasks : rt_state[r] # "failed")
    => /\ Cardinality(Created) <= 1
       /\ \A t, u \in Tasks :
            (task[t].app # NONE /\ task[u].app # NONE)
            => task[t].app = task[u].app

\* An await of execute's acquisition, resolution or send ends with an
\* exception in this step.
FailsNow(t) ==
    /\ task[t].pc \in {"idle", "entering", "sending"}
    /\ task'[t].kind = "execute"
    /\ task[t].failure = NO_EXC
    /\ task'[t].failure # NO_EXC

\* C2 as stated: whatever is raised while the runtime is acquired, the
\* workflow is resolved or the workflow runs is caught by execute and
\* becomes an error text on the event queue; execute never raises.
C2_FailuresCaught ==
    [][ \A t \in Tasks :
          /\ FailsNow(t) => task'[t].pc = "handling"
          /\ task[t].pc = "handling"
             => /\ task'[t].pc \in {"handling", "returned"}
                /\ task'[t].pc = "returned"
                   => events'[t] = << TextMessage(ErrorText(
                         task[t].workflow_name, task[t].failure.text)) >>
      ]_vars

\* C2 amended: an Exception raised while the runtime is acquired, the
\* workflow is resolved or the workflow runs is caught by execute, which
\* then enqueues the error text made from it and returns; an exception
\* that is not an Exception (a cancellation) leaves execute with nothing
\* enqueued, and so does an exception raised by the enqueue of the error
\* text.
C2_ExceptionsCaught ==
    [][ \A t \in Tasks :
          /\ FailsNow(t)
             => /\ events'[t] = events[t]
                /\ task'[t].pc =
                      IF IsException(task'[t].failure)
                      THEN "handling" ELSE "raised"
          /\ (task[t].pc = "handling" /\ task'[t].pc # "handling")
             => \/ /\ task'[t].pc = "returned"
                   /\ events'[t] = << TextMessage(ErrorText(
                         task[t].workflow_name, task[t].failure.text)) >>
                \/ /\ task'[t].pc = "raised"
                   /\ events'[t] = <<>>
      ]_vars

\* One execute call has failed on the runtime it created and returned with
\* the error text; another was cancelled while the runtime was being
\* created and has raised.
C2_Witness ==
    \E t, u \in Tasks :
        /\ t # u
        /\ task[t].kind = "execute" /\ task[u].kind = "execute"
        /\ task[t].pc = "returned" /\ rt_state[t] = "open"
        /\ IsException(task[t].failure)
        /\ Len(events[t]) = 1
        /\ task[u].pc = "raised" /\ task[u].failure = CANCELLED
        /\ rt_state[u] = "failed"

\* C5: a cancel call, in whatever state it is made, raises the
\* unsupported-cancel failure and changes nothing else: the runtime, the
\* exit stack, the other calls, every event queue and the shutdown caller
\* are as before.
C5_CancelUnsupported ==
    [][ \A t \in Tasks :
          (task[t].pc = "idle" /\ task'[t].kind = "cancel")
          => /\ task'[t].pc = "raised"
             /\ task'[t].failure = Exc("Exception", CANCEL_UNSUPPORTED)
             /\ \A u \in Tasks \ {t} : task'[u] = task[u]
             /\ UNCHANGED << agents, stack, rt_state, rt_exits, events,
                             shutdown >> ]_vars

\* A cancel has been made while a runtime is live and another call is in
\* flight on it.
C5_Witness ==
    \E t, u \in Tasks :
        /\ task[t].kind = "cancel" /\ task[t].pc = "raised"
        /\ task[u].pc = "sending"
        /\ agents # NONE

\* C6: the response of a failed execute call is never the response a
\* successful execute call produces.
C6_FailureDistinguishable ==
    \A t, u \in Tasks :
        (/\ task[t].kind = "execute" /\ task[u].kind = "execute"
         /\ task[t].pc = "returned" /\ task[u].pc = "returned"
         /\ task[t].failure # NO_EXC /\ task[u].failure = NO_EXC
         /\ events[t] # <<>> /\ events[u] # <<>>)
        => events[t][1] # events[u][1]

\* The shutdown call that ends in this step raises: an exit before the
\* last one raised, or the last one does.
ShutdownRaises ==
    \/ shutdown.pending # NO_EXC
    \/ shutdown.rt # NONE /\ rt_state'[shutdown.rt] = "exit_failed"

\* C7: when a shutdown call ends and no request is in flight, it has
\* raised nothing, every runtime that was created has been exited exactly
\* once and is closed, the exit stack is empty and no runtime is cached; a
\* shutdown call made in that state changes nothing.
C7_TeardownOnce ==
    [][ (shutdown'.calls = shutdown.calls + 1
            /\ \A t \in Tasks : ~InFlight(t))
        => /\ ~ShutdownRaises
           /\ agents' = NONE
           /\ stack' = <<>>
           /\ \A r \in Tasks :
                \/ rt_state'[r] \in {"unused", "failed"} /\ rt_exits'[r] = 0
                \/ rt_state'[r] = "closed" /\ rt_exits'[r] = 1
           /\ (agents = NONE /\ stack = <<>> /\ shutdown.pc = "idle")
              => UNCHANGED << agents, stack, rt_state, rt_exits, task,
                              events >> ]_vars

(***************************************************************************)
(* Properties of the dispatch function.                                    *)
(***************************************************************************)
\* The message has the form workflow:<name>|<rest>.
Routed(m) == StartsWith(m, PREFIX) /\ Contains(m, SEP)
RoutedName(m) == SubSeq(m, 2, FirstIndex(m, SEP) - 1)
RoutedRest(m) == SubSeq(m, FirstIndex(m, SEP) + 1, Len(m))

\* t is s without its leading and trailing whitespace.
IsTrimOf(t, s) ==
    \E a, b \in 0..Len(s) :
        /\ a + b <= Len(s)
        /\ t = SubSeq(s, a + 1, Len(s) - b)
        /\ \A k \in 1..a : s[k] = WS
        /\ \A k \in (Len(s) - b + 1)..Len(s) : s[k] = WS
        /\ t # <<>> => (t[1] # WS /\ t[Len(t)] # WS)

TrimOf(s) ==
    CHOOSE t \in { SubSeq(s, a, b) : a \in 1..(Len(s) + 1), b \in 0..Len(s) } :
        IsTrimOf(t, s)

\* C3 as stated: a dispatched message of the form workflow:<name>|<rest>
\* selects <name> with input <rest>, and any other dispatched message is
\* itself the input, for the default workflow.
C3_RoutingLiteral ==
    (d_pc = "done" /\ d_out.dispatched)
    => IF Routed(d_in.raw)
       THEN /\ d_out.workflow_name = RoutedName(d_in.raw)
            /\ d_out.user_message = RoutedRest(d_in.raw)
       ELSE /\ d_out.workflow_name = DEFAULT_WORKFLOW
            /\ d_out.user_message = d_in.raw

\* C3 amended: the message is first trimmed, and a message that is empty
\* then is not dispatched.  If the trimmed message has the form
\* workflow:<name>|<rest>, the name selected is <name> with every further
\* "workflow:" removed and then trimmed, and the input is <rest> trimmed;
\* otherwise the trimmed message is the input, for the default workflow.
\* "workflow:router_workflow|What is 2+2?" gives router_workflow and
\* "What is 2+2?"; "hello" gives the default and "hello".
C3_RoutingTrimmed ==
    d_pc = "done"
    => LET m == TrimOf(d_in.raw)
       IN  /\ d_out.dispatched = (m # <<>>)
           /\ (m # <<>> /\ Routed(m))
              => /\ IsTrimOf(d_out.workflow_name,
                        SelectSeq(RoutedName(m), LAMBDA x : x # PREFIX))
                 /\ IsTrimOf(d_out.user_message, RoutedRest(m))
           /\ (m # <<>> /\ ~Routed(m))
              => /\ d_out.workflow_name = DEFAULT_WORKFLOW
                 /\ d_out.user_message = m
           /\ LET e == Dispatch(<< PREFIX, "router_workflow", SEP,
                           "What", WS, "is", WS, "2+2?" >>, REGISTERED)
              IN  /\ e.workflow_name = << "router_workflow" >>
                  /\ e.user_message = << "What", WS, "is", WS, "2+2?" >>
           /\ LET e == Dispatch(<< "hello" >>, REGISTERED)
              IN  /\ e.workflow_name = DEFAULT_WORKFLOW
                  /\ e.user_message = << "hello" >>

\* A routed message whose <rest> starts with a blank and holds a second
\* separator has been parsed.
C3_Witness ==
    /\ d_pc = "done"
    /\ d_in.raw = << PREFIX, "proofreader", SEP, WS, SEP >>
    /\ d_out.workflow_name = << "proofreader" >>
    /\ d_out.user_message = << SEP >>

\* C4: a message without a well-formed routing prefix asks for the default
\* workflow; a registered name resolves to itself; an unregistered name
\* resolves to the default workflow when the map holds it and otherwise to
\* the first entry of the map.
C4_ResolutionFallback ==
    (d_pc = "done" /\ d_out.dispatched)
    => LET keys == { d_in.agents_map[i] : i \in 1..Len(d_in.agents_map) }
           n == d_out.workflow_name
       IN  /\ ~Routed(TrimOf(d_in.raw)) => n = DEFAULT_WORKFLOW
           /\ n \in keys => d_out.agent = n
           /\ (n \notin keys /\ DEFAULT_WORKFLOW \in keys)
              => d_out.agent = DEFAULT_WORKFLOW
           /\ (n \notin keys /\ DEFAULT_WORKFLOW \notin keys)
              => d_out.agent = d_in.agents_map[1]

\* An unregistered name is resolved in a map without the default workflow
\* whose first entry is not the requested name.
C4_Witness ==
    /\ d_pc = "done"
    /\ d_out.dispatched
    /\ d_out.workflow_name = << "router_workflow" >>
    /\ d_in.agents_map = << << "proofreader" >>, << "chaining_workflow" >> >>
    /\ d_out.agent = << "proofreader" >>

\* The workflows the decorators declare (lines 53, 82, 112, 139, 170); the
\* other registered names are agents.
WORKFLOWS == { << "chaining_workflow" >>, << "parallel_workflow" >>,
               << "router_workflow" >>, << "orchestrator_workflow" >>,
               << "evaluator_optimizer_workflow" >> }

\* C14: with the declared agents registered, the target every dispatched
\* request resolves to is a workflow; the id of a member agent never
\* selects that agent and resolves to the default workflow.
C14_ResolvesWorkflow ==
    (d_pc = "done" /\ d_out.dispatched /\ d_in.agents_map = REGISTERED)
    => /\ d_out.agent \in WORKFLOWS
       /\ d_out.workflow_name \notin WORKFLOWS
          => d_out.agent = DEFAULT_WORKFLOW

\* The two texts around each position of a text, in either order.
Halves(raw) ==
    LET cut(k) == << SubSeq(raw, 2, k - 1), SubSeq(raw, k + 1, Len(raw)) >>
    IN  { [w |-> cut(k)[1], m |-> cut(k)[2]] : k \in 2..Len(raw) }
            \cup { [w |-> cut(k)[2], m |-> cut(k)[1]] : k \in 2..Len(raw) }

\* The workflow names w and messages m send_message builds a text from.
SentAs(raw) == { p \in Halves(raw) : raw = SendMessage(p.m, p.w) }

\* C19 as stated: the text send_message builds from workflow name w and
\* message m is parsed by execute into workflow name w and input m.
C19_RoundTripLiteral ==
    d_pc = "done"
    => \A p \in SentAs(d_in.raw) :
          /\ d_out.dispatched
          /\ d_out.workflow_name = p.w
          /\ d_out.user_message = p.m

\* C19 amended: the text send_message builds from w and m is always
\* dispatched; when w holds no "|", execute's workflow name is w with every
\* "workflow:" removed and then trimmed, and its input is m trimmed.  So
\* the round trip gives back w and m exactly when w holds neither "|" nor
\* "workflow:" and neither w nor m starts or ends with whitespace.
C19_RoundTripTrimmed ==
    d_pc = "done"
    => \A p \in SentAs(d_in.raw) :
          /\ d_out.dispatched
          /\ ~Contains(p.w, SEP)
             => /\ IsTrimOf(d_out.workflow_name,
                       SelectSeq(p.w, LAMBDA x : x # PREFIX))
                /\ IsTrimOf(d_out.user_message, p.m)
                /\ (/\ ~Contains(p.w, PREFIX)
                    /\ IsTrimOf(p.w, p.w)
                    /\ IsTrimOf(p.m, p.m))
                   <=> (d_out.workflow_name = p.w /\ d_out.user_message = p.m)

\* A message sent with a leading blank has come back without it.
C19_Witness ==
    /\ d_pc = "done"
    /\ d_in.raw = SendMessage(<< WS, "proofreader" >>, << "router_workflow" >>)
    /\ d_out.workflow_name = << "router_workflow" >>
    /\ d_out.user_message = << "proofreader" >>

\* C15: the error text execute enqueues for a request whose workflow was
\* resolved names the workflow that was resolved and run.
C15_FailureNamesRun ==
    [][ \A t \in Tasks :
          (/\ task[t].pc = "handling"
           /\ task[t].agent # <<>>
           /\ task'[t].pc = "returned")
          => events'[t] = << TextMessage(
                 ErrorText(task[t].agent, task[t].failure.text)) >> ]_vars

\* C16: an execute call whose message is not blank has enqueued nothing
\* before it returns (or raises) and exactly one event, the response text
\* or an error text, when it has returned; a call whose message is blank has returned
\* with no event, no runtime created and no workflow resolved.
C16_OneResponse ==
    /\ [](\A t \in Tasks :
            task[t].kind = "execute"
            => /\ (task[t].message # <<>> /\ task[t].pc # "returned")
                  => events[t] = <<>>
               /\ (task[t].message # <<>> /\ task[t].pc = "returned")
                  => /\ Len(events[t]) = 1
                     /\ events[t][1].kind = "message"
               /\ task[t].message = <<>>
                  => /\ task[t].pc = "returned"
                     /\ events[t] = <<>>
                     /\ rt_state[t] = "unused"
                     /\ task[t].app = NONE
                     /\ task[t].agent = <<>>)
    /\ [][ \A t \in Tasks :
             (task[t].kind = "execute" /\ task[t].pc # "returned"
                /\ task'[t].pc = "returned" /\ task'[t].message # <<>>)
             => /\ task[t].pc \in {"enqueuing", "handling"}
                /\ task[t].pc = "enqueuing"
                   => /\ task[t].response \in Outputs
                      /\ events'[t] = << TextMessage(task[t].response) >>
                /\ task[t].pc = "handling"
                   => events'[t] = << TextMessage(ErrorText(
                         task[t].workflow_name, task[t].failure.text)) >>
         ]_vars

\* One call has returned from a blank message and another from a failure
\* on the runtime it created, each with its events.
C16_Witness ==
    \E t, u \in Tasks :
        /\ task[t].kind = "execute" /\ task[t].pc = "returned"
        /\ task[t].message = <<>> /\ events[t] = <<>>
        /\ task[u].kind = "execute" /\ task[u].pc = "returned"
        /\ rt_state[u] = "open" /\ task[u].failure # NO_EXC
        /\ Len(events[u]) = 1

\* C17: a call that takes the cached runtime takes one that is open: its
\* teardown has not begun.
C17_NoClosingRuntime ==
    [][\A t \in Tasks :
          (task[t].pc = "idle" /\ task'[t].pc # "idle" /\ agents # NONE
             /\ task'[t].app = agents)
          => rt_state[agents] = "open"]_vars

\* Whether runtime r is held by the executor.
Held(r) == agents = r \/ \E i \in 1..Len(stack) : stack[i] = r

\* C18: a fast.run() that fails is neither cached nor registered for
\* teardown and leaves the cached runtime as it was, the execute call that
\* entered it goes to its handler and, when the enqueue of line 247
\* returns, has the error text of that failure in its queue, and a call
\* that finds no runtime cached enters fast.run() anew.
C18_FailedCreationNotCached ==
    /\ [](\A r \in Tasks :
            Held(r) => rt_state[r] \in {"open", "closing", "closed",
                                        "exit_failed"})
    /\ [][\A t \in Tasks :
            /\ (rt_state[t] = "entering" /\ rt_state'[t] = "failed")
               => /\ agents' = agents
                  /\ stack' = stack
                  /\ (task[t].kind = "execute"
                        /\ IsException(task'[t].failure))
                     => task'[t].pc = "handling"
            /\ (rt_state[t] = "failed" /\ task[t].pc = "handling"
                  /\ task'[t].pc = "returned")
               => events'[t] = << TextMessage(ErrorText(
                      task[t].workflow_name, task[t].failure.text)) >>
            /\ (task[t].pc = "idle" /\ task'[t].kind \in {"execute", "agent_card"}
                  /\ agents = NONE
                  /\ (task'[t].kind = "execute" => task'[t].message # <<>>))
               => /\ task'[t].pc = "entering"
                  /\ rt_state'[t] = "entering"]_vars

\* A creation has failed and its call has returned with an error text, no
\* runtime is cached, and another call is entering fast.run().
C18_Witness ==
    \E t, u \in Tasks :
        /\ rt_state[t] = "failed"
        /\ task[t].pc = "returned" /\ Len(events[t]) = 1
        /\ agents = NONE /\ stack = <<>>
        /\ task[u].pc = "entering" /\ rt_state[u] = "entering"

(***************************************************************************)
(* Properties of the workflow patterns.                                    *)
(***************************************************************************)
Invoked(agent) == \E i \in 1..Len(flow.calls) : flow.calls[i].agent = agent

\* C8: the chain invokes url_summarizer on the input, then content_writer
\* on url_summarizer's output, never two stages at once, and its result is
\* content_writer(url_summarizer(x)); if url_summarizer fails the chain
\* ends with that failure and content_writer is never invoked.
C8_ChainComposes ==
    flow.pattern = "chain"
    => /\ Cardinality(flow.running) <= 1
       /\ Len(flow.calls) <= 2
       /\ Len(flow.calls) >= 1
          => flow.calls[1] = Call("url_summarizer", flow.input)
       /\ Len(flow.calls) = 2
          => /\ flow.calls[2] =
                   Call("content_writer", Out("url_summarizer", flow.input))
             /\ "url_summarizer" \notin flow.running
       /\ (flow.pc = "done" /\ flow.result.ok)
          => flow.result.text =
                Out("content_writer", Out("url_summarizer", flow.input))
       /\ (flow.pc = "done" /\ Len(flow.calls) = 1)
          => /\ ~flow.result.ok
             /\ flow.result.agent = "url_summarizer"
             /\ flow.result.cause \in Causes
       /\ (flow.pc = "done" /\ ~flow.result.ok
              /\ flow.result.agent = "url_summarizer")
          => ~Invoked("content_writer")

\* The chain has run both stages to its result.
C8_Witness ==
    /\ flow.pattern = "chain"
    /\ flow.pc = "done"
    /\ flow.result.ok
    /\ Len(flow.calls) = 2

\* C9: quality_grader is invoked only after proofreader, fact_checker and
\* style_enforcer have all returned, and its input lists their outputs in
\* that order whatever the order they returned in; if one of them fails,
\* quality_grader is never invoked and the result is that failure.
C9_ParallelAggregates ==
    flow.pattern = "parallel"
    => /\ Invoked("quality_grader")
          => /\ flow.calls[Len(flow.calls)] = Call("quality_grader",
                   << [agent |-> "proofreader",
                       output |-> Out("proofreader", flow.input)],
                      [agent |-> "fact_checker",
                       output |-> Out("fact_checker", flow.input)],
                      [agent |-> "style_enforcer",
                       output |-> Out("style_enforcer", flow.input)] >>)
             /\ Range(flow.finished) =
                   {"proofreader", "fact_checker", "style_enforcer"}
             /\ flow.running \subseteq {"quality_grader"}
       /\ (flow.pc = "done" /\ ~Invoked("quality_grader"))
          => /\ ~flow.result.ok
             /\ flow.result.agent \in
                   {"proofreader", "fact_checker", "style_enforcer"}
             /\ flow.result.agent \notin Range(flow.finished)
       /\ (flow.pc = "done" /\ ~flow.result.ok
              /\ flow.result.agent # "quality_grader")
          => ~Invoked("quality_grader")
       /\ (flow.pc = "done" /\ flow.result.ok)
          => /\ Invoked("quality_grader")
             /\ flow.result.text =
                   Out("quality_grader", flow.calls[Len(flow.calls)].input)

\* The fan-out agents returned in an order other than the declared one and
\* quality_grader has produced the result.
C9_Witness ==
    /\ flow.pattern = "parallel"
    /\ flow.pc = "done"
    /\ flow.result.ok
    /\ flow.finished = << "style_enforcer", "proofreader", "fact_checker" >>

\* C10: the router invokes exactly one agent, a candidate, with the
\* original input: the one the classifier named, or code_analyst when the
\* classifier named no candidate; its output is the result, unchanged.
C10_RouterInvokesOne ==
    flow.pattern = "router"
    => /\ Len(flow.calls) <= 1
       /\ flow.pc \in {"routed", "done"}
          => /\ Len(flow.calls) = 1
             /\ flow.calls[1].input = flow.input
             /\ flow.calls[1].agent \in
                   {"code_analyst", "web_researcher", "general_assistant"}
             /\ flow.calls[1].agent =
                   IF flow.picked \in
                        {"code_analyst", "web_researcher", "general_assistant"}
                   THEN flow.picked ELSE "code_analyst"
       /\ (flow.pc = "done" /\ flow.result.ok)
          => flow.result.text = Out(flow.calls[1].agent, flow.input)
       /\ (flow.pc = "done" /\ ~flow.result.ok)
          => flow.result.agent = flow.calls[1].agent

\* The classifier named no candidate and the router has returned
\* code_analyst's output.
C10_Witness ==
    /\ flow.pattern = "router"
    /\ flow.pc = "done"
    /\ flow.picked = "unknown_agent"
    /\ flow.result.ok
    /\ flow.result.text = Out("code_analyst", flow.input)

CallsTo(agent) ==
    Cardinality({ i \in 1..Len(flow.calls) : flow.calls[i].agent = agent })

\* The evaluator-optimizer's bounds in a state: with budget n at most n+1
\* calls of the generator and of the evaluator (at most 4 of each with the
\* declared budget), and a rating that reaches the minimum is the last one,
\* ends the loop and is followed by no call.
EvaluatorBounded ==
    flow.pattern = "evaluator"
    => /\ CallsTo("content_generator") <= flow.limit + 1
       /\ CallsTo("quality_evaluator") <= flow.limit + 1
       /\ flow.limit = 2 => CallsTo("content_generator") <= 3
       /\ flow.limit = MAX_REFINEMENTS
          => /\ CallsTo("content_generator") <= 4
             /\ CallsTo("quality_evaluator") <= 4
       /\ \A i \in 1..Len(flow.verdicts) :
             Rank(flow.verdicts[i]) >= Rank("EXCELLENT")
             => /\ i = Len(flow.verdicts)
                /\ flow.pc = "done"
                /\ flow.running = {}
                /\ Len(flow.calls) = 2 * i

\* C11: with maxRefinements = n the evaluator-optimizer calls the generator
\* at most n+1 times and the evaluator at most n+1 times, it always ends,
\* and it stops at the first rating that reaches minRating, with no call
\* of the generator or of the evaluator after it.
C11_EvaluatorTerminates ==
    /\ []EvaluatorBounded
    /\ <>(flow.pattern = "evaluator" => flow.pc = "done")

C11_Witness ==
    /\ flow.pattern = "evaluator"
    /\ flow.limit = MAX_REFINEMENTS
    /\ flow.pc = "done"
    /\ flow.verdicts = << "GOOD", "POOR", "FAIR", "EXCELLENT" >>
    /\ CallsTo("content_generator") = 4
    /\ CallsTo("quality_evaluator") = 4

\* The planner's bounds in a state: the stages run as Plan, Execute,
\* Review, at most n cycles of them with budget n, and a completion signal
\* is the last review, ends the loop and is followed by no stage.
PlannerBounded ==
    flow.pattern = "planner"
    => /\ Len(flow.calls) <= 3 * flow.limit
       /\ flow.limit = PLAN_ITERATIONS => Len(flow.calls) <= 9
       /\ Cardinality(flow.running) <= 1
       /\ \A i \in 1..Len(flow.calls) :
             flow.calls[i].agent =
                 CASE i % 3 = 1 -> "task_planner"
                   [] i % 3 = 2 -> "executor"
                   [] i % 3 = 0 -> "reviewer"
       /\ \A i \in 1..Len(flow.verdicts) :
             flow.verdicts[i] = "complete"
             => /\ i = Len(flow.verdicts)
                /\ flow.pc = "done"
                /\ flow.running = {}
                /\ Len(flow.calls) = 3 * i

\* C12: with maxIterations = n the planner runs at most n cycles of Plan,
\* Execute, Review in that order, it always ends, and once the reviewer
\* signals completion at iteration i no stage of iteration i+1 runs.
C12_PlannerTerminates ==
    /\ []PlannerBounded
    /\ <>(flow.pattern = "planner" => flow.pc = "done")

C12_Witness ==
    /\ flow.pattern = "planner"
    /\ flow.limit = PLAN_ITERATIONS
    /\ flow.pc = "done"
    /\ flow.verdicts = << "feedback", "complete" >>
    /\ Len(flow.calls) = 6

\* The calls one round of a loop makes.
RoundLength == IF flow.pattern = "planner" THEN 3 ELSE 2

\* The rounds a loop may run.
RoundsAllowed ==
    IF flow.pattern = "planner" THEN flow.limit ELSE flow.limit + 1

Approves(verdict) ==
    IF flow.pattern = "planner" THEN verdict = "complete"
    ELSE Rank(verdict) >= Rank("EXCELLENT")

\* C13: a loop that uses its budget up without approval ends with a
\* success carrying the last artifact or candidate and its verdict or
\* rating; a loop ends with a failure only when an invocation failed, and
\* that invocation is the last one it made.
C13_ExhaustionSucceeds ==
    (flow.pattern \in {"planner", "evaluator"} /\ flow.pc = "done")
    => LET n == Len(flow.verdicts)
           last == flow.calls[Len(flow.calls)]
       IN  /\ (/\ n = RoundsAllowed
               /\ \A i \in 1..n : ~Approves(flow.verdicts[i]))
              => /\ flow.result.ok
                 /\ flow.result.text.verdict = flow.verdicts[n]
                 /\ flow.result.text.artifact = last.input
                 /\ flow.result.text.artifact =
                       Out(flow.calls[Len(flow.calls) - 1].agent,
                           flow.calls[Len(flow.calls) - 1].input)
           /\ flow.result.ok <=> Len(flow.calls) = RoundLength * n
           /\ ~flow.result.ok
              => /\ Len(flow.calls) > RoundLength * n
                 /\ flow.result.agent = last.agent
                 /\ flow.result.cause \in Causes
                 /\ \A i \in 1..n : ~Approves(flow.verdicts[i])

C13_Witness ==
    /\ flow.pattern = "planner"
    /\ flow.limit = PLAN_ITERATIONS
    /\ flow.pc = "done"
    /\ flow.verdicts = << "feedback", "feedback", "feedback" >>
    /\ flow.result.ok
    /\ flow.result.text.verdict = "feedback"


=============================================================================
